---------------------------- MODULE Spec2Model ----------------------------
(***************************************************************************)
(* The aggregate definition compiler of pgx-utils                          *)
(* (sql_entity_graph/pg_aggregate/mod.rs): PgAggregate::new turns one      *)
(* `impl Aggregate for T` block into the augmented impl block, the         *)
(* generated #[pg_extern] wrapper functions and the PgAggregateEntity      *)
(* descriptor that ToTokens emits.                                         *)
(*                                                                         *)
(* Syntax trees are records.  An Option<T> is a sequence of length 0       *)
(* (None) or 1 (Some).  A Result is a record with a `kind` field.          *)
(*                                                                         *)
(* The build script of pgx-pg-sys (build.rs) is modelled next to it: the   *)
(* parallel loop over the three Postgres versions in main, the mutex of    *)
(* build_shim, and bindings_diff::main with build_common_set.              *)
(***************************************************************************)
EXTENDS Integers, Sequences, FiniteSets, TLC

VARIABLES
    input,    \* the ItemImpl handed to PgAggregate::new (item_impl_snapshot)
    agg,      \* the outcome of PgAggregate::new: not run, Ok(Self), Err or a panic
    tokens,   \* the outcome of ToTokens::to_tokens: not run, the emitted items or a panic
    pc,       \* "parsed" -> "constructed" -> "emitted"
    done,     \* the expansions of earlier impl blocks of the same build, oldest first
    worker,       \* build.rs: where the closure of the parallel loop is, per version
    shim_mutex,   \* build.rs: the holder of shim_mutex (0: free) and its poison flag
    bindings_rs,  \* build.rs: the file src/pgNN_bindings.rs per version, as a set of items
    main_pc,      \* build.rs: where main is
    versions,     \* build.rs: the locals v10, v11, v12 of bindings_diff::main
    common,       \* build.rs: the local `common` of bindings_diff::main
    written       \* build.rs: common.rs and the pgNN_specific.rs files

\* the state of the aggregate macro
aggVars == <<input, agg, tokens, pc, done>>

\* the state of the build script
buildVars == <<worker, shim_mutex, bindings_rs, main_pc, versions, common, written>>

vars == <<input, agg, tokens, pc, done,
          worker, shim_mutex, bindings_rs, main_pc, versions, common, written>>

(***************************************************************************)
(* Bounds of the explored input space.                                     *)
(***************************************************************************)
\* an input differs from the canonical minimal specification in at most this many slots
MaxEdits == 2
\* the small `Args` tuples have at most this many elements
MaxTupleLen == 2
\* in a build of several impl blocks an input differs from the canonical one in
\* at most this many slots
MaxBuildEdits == 1
\* a build expands at most this many impl blocks before the one at hand
MaxSiblings == 1
\* the bindings of a version hold at most this many different items
MaxItems == 2

(***************************************************************************)
(* Option and small sequence helpers.                                      *)
(***************************************************************************)
None == <<>>

Some(x) == <<x>>

IsSome(o) == Len(o) > 0

IsNone(o) == Len(o) = 0

Unwrap(o) == o[1]

\* Iterator::last / Punctuated::last
Last(s) == IF Len(s) = 0 THEN None ELSE Some(s[Len(s)])

\* Punctuated::first
First(s) == IF Len(s) = 0 THEN None ELSE Some(s[1])

Min(a, b) == IF a <= b THEN a ELSE b

(***************************************************************************)
(* build.rs: the Postgres versions and the items of the generated bindings.*)
(***************************************************************************)
\* pg_configs: the major versions, in the order of the vector
VersionList == <<10, 11, 12>>

PgVersions == {VersionList[i] : i \in DOMAIN VersionList}

\* the items (item.to_token_stream().to_string()) that bindgen may generate
ItemPool == <<"pub struct Node ;", "pub fn palloc () ;", "pub const NAMEDATALEN : u32 = 64 ;",
              "pub type Oid = u32 ;", "pub static mut MyProc : * mut PGPROC ;">>

Items == {ItemPool[i] : i \in 1..Min(MaxItems, Len(ItemPool))}

(***************************************************************************)
(* syn::Type and syn::Path.  A path keeps its leading segments in `qual`   *)
(* and its last segment in `id`; `angled` tells PathArguments::            *)
(* AngleBracketed from PathArguments::None and `args` are the generic      *)
(* arguments (or the elements of a tuple type).                            *)
(***************************************************************************)
Ty(k, qual, id, angled, args) ==
    [k |-> k, qual |-> qual, id |-> id, angled |-> angled, args |-> args]

TPath(id) == Ty("Path", <<>>, id, FALSE, <<>>)

TQPath(qual, id) == Ty("Path", qual, id, FALSE, <<>>)

TGeneric(qual, id, args) == Ty("Path", qual, id, TRUE, args)

TTuple(elems) == Ty("Tuple", <<>>, "", FALSE, elems)

\* `()`
TUnit == TTuple(<<>>)

\* a type that is not a path: `&'static T`
TReference(t) == Ty("Reference", <<>>, "", FALSE, <<t>>)

\* a generic argument that is not a type: `'a`
GLifetime == Ty("Lifetime", <<>>, "a", FALSE, <<>>)

\* `<T as pgx::Aggregate>::Name`
TQSelf(t, name) == Ty("QSelf", <<"pgx", "Aggregate">>, name, FALSE, <<t>>)

\* `Self::Name`
TSelfAssoc(name) == Ty("Path", <<"Self">>, name, FALSE, <<>>)

\* `Vec<u8>`
TVecU8 == TGeneric(<<>>, "Vec", <<TPath("u8")>>)

\* `pgx::PgBox<t>`
TPgBox(t) == TGeneric(<<"pgx">>, "PgBox", <<t>>)

\* `pgx::PgVarlena<t>`
TPgVarlena(t) == TGeneric(<<"pgx">>, "PgVarlena", <<t>>)

\* the designated variadic wrapper around an element type
TVariadic(t) == Ty("Variadic", <<>>, "", FALSE, <<t>>)

\* a type the argument-list resolvers cannot resolve
TUnresolvable == Ty("Infer", <<>>, "_", FALSE, <<>>)

\* placeholder of the `ty` field of an item that has no type
NoTy == Ty("None", <<>>, "", FALSE, <<>>)

(***************************************************************************)
(* syn::Expr, as far as the constants need it.                             *)
(***************************************************************************)
Ex(k, v, args) == [k |-> k, v |-> v, args |-> args]

ELitStr(s) == Ex("LitStr", s, <<>>)

ELitBool(b) == Ex("LitBool", b, <<>>)

ELitInt(n) == Ex("LitInt", n, <<>>)

\* Expr::Path, `v` its last segment
EPath(id) == Ex("Path", id, <<>>)

\* Expr::Call: args[1] is the called expression, the rest are the arguments
ECall(f, a) == Ex("Call", "", <<f>> \o a)

\* `move || ..`: a called expression that is not a path
EClosure == Ex("Closure", "", <<>>)

NoEx == Ex("None", "", <<>>)

(***************************************************************************)
(* syn::ImplItem.  A method carries its signature and a body tag: "user"   *)
(* for the author's definition, or the message of unimplemented!().        *)
(***************************************************************************)
Param(name, ty) == [name |-> name, ty |-> ty]

Item(kind, ident, ty, expr, params, ret, body) ==
    [kind |-> kind, ident |-> ident, ty |-> ty, expr |-> expr,
     params |-> params, ret |-> ret, body |-> body]

ImplType(ident, ty) == Item("Type", ident, ty, NoEx, <<>>, NoTy, "")

ImplConst(ident, expr) == Item("Const", ident, NoTy, expr, <<>>, NoTy, "")

ImplMethod(ident, params, ret, body) == Item("Method", ident, NoTy, NoEx, params, ret, body)

UserMethod(ident) == ImplMethod(ident, <<>>, NoTy, "user")

\* an attribute of the impl block: its path's last segment and whether its
\* tokens parse as PgAggregateAttrs
Attr(last, parses) == [last |-> last, parses |-> parses]

(***************************************************************************)
(* The name pool.                                                          *)
(***************************************************************************)
ARG_NAMES ==
    <<"arg_one", "arg_two", "arg_three", "arg_four", "arg_five", "arg_six",
      "arg_seven", "arg_eight", "arg_nine", "arg_ten", "arg_eleven", "arg_twelve",
      "arg_thirteen", "arg_fourteen", "arg_fifteen", "arg_sixteen", "arg_seventeen",
      "arg_eighteen", "arg_nineteen", "arg_twenty", "arg_twenty_one", "arg_twenty_two",
      "arg_twenty_three", "arg_twenty_four", "arg_twenty_five", "arg_twenty_six",
      "arg_twenty_seven", "arg_twenty_eight", "arg_twenty_nine", "arg_thirty",
      "arg_thirty_one", "arg_thirty_two">>

(***************************************************************************)
(* The input space: every specification that differs from the canonical    *)
(* minimal one (`impl Aggregate for MySum` with NAME, Args = i32 and a     *)
(* `state` method) in at most MaxEdits slots.  A slot is the target type,  *)
(* the trait, the attributes, or one associated type, method or constant.  *)
(***************************************************************************)
ElemTypes == <<TPath("i32"), TPath("f64")>>

\* the tuple elements of length n that start with ElemTypes[start] and alternate
TupleOf(n, start) == [i \in 1..n |-> ElemTypes[((start + i) % 2) + 1]]

\* the `Args` tuples: the small ones, and those at and just past the end of the name pool
ArgsTuples ==
    [n \in 1..MaxTupleLen |-> Some(TTuple(TupleOf(n, 1)))]
    \o [n \in 1..MaxTupleLen |-> Some(TTuple(TupleOf(n, 2)))]
    \o <<Some(TTuple(TupleOf(Len(ARG_NAMES), 1))),
         Some(TTuple(TupleOf(Len(ARG_NAMES) + 1, 1)))>>

MethodNames ==
    <<"state", "combine", "finalize", "serial", "deserial",
      "moving_state", "moving_state_inverse", "moving_finalize">>

OptionalMethods == {MethodNames[i] : i \in 2..Len(MethodNames)}

BaseSlots ==
    [self_ty |-> TPath("MySum"),
     trait_ |-> Some(<<"Aggregate">>),
     attrs |-> <<>>,
     NAME |-> Some(ELitStr("my_sum")),
     PARALLEL |-> None,
     FINALIZE_MODIFY |-> None,
     MOVING_FINALIZE_MODIFY |-> None,
     INITIAL_CONDITION |-> None,
     SORT_OPERATOR |-> None,
     MOVING_INITIAL_CONDITION |-> None,
     HYPOTHETICAL |-> None,
     State |-> None,
     MovingState |-> None,
     OrderBy |-> None,
     Args |-> Some(TPath("i32")),
     Finalize |-> None,
     state |-> TRUE,
     combine |-> FALSE,
     finalize |-> FALSE,
     serial |-> FALSE,
     deserial |-> FALSE,
     moving_state |-> FALSE,
     moving_state_inverse |-> FALSE,
     moving_finalize |-> FALSE]

SlotNames ==
    <<"self_ty", "trait_", "attrs",
      "NAME", "PARALLEL", "FINALIZE_MODIFY", "MOVING_FINALIZE_MODIFY",
      "INITIAL_CONDITION", "SORT_OPERATOR", "MOVING_INITIAL_CONDITION", "HYPOTHETICAL",
      "State", "MovingState", "OrderBy", "Args", "Finalize",
      "state", "combine", "finalize", "serial", "deserial",
      "moving_state", "moving_state_inverse", "moving_finalize">>

\* the values a slot takes besides its value in BaseSlots
Alternatives(slot) ==
    CASE slot = "self_ty" ->
           <<TQPath(<<"agg">>, "MySum"),
             TPath("IntegerAvgState"),
             TGeneric(<<>>, "PgVarlena", <<TPath("MySum")>>),
             TGeneric(<<"pgx">>, "PgVarlena", <<TQPath(<<"agg">>, "IntegerAvgState")>>),
             TPath("PgVarlena"),
             TGeneric(<<>>, "PgVarlena", <<>>),
             TGeneric(<<>>, "PgVarlena", <<TTuple(<<TPath("i32")>>)>>),
             TGeneric(<<>>, "PgVarlena", <<GLifetime>>),
             TReference(TPath("MySum"))>>
      [] slot = "trait_" ->
           <<None, Some(<<"pgx", "Aggregate">>), Some(<<"fmt", "Display">>)>>
      [] slot = "attrs" ->
           <<<<Attr("pg_aggregate", TRUE)>>,
             <<Attr("pg_aggregate", FALSE)>>,
             <<Attr("allow", FALSE)>>>>
      [] slot = "NAME" ->
           <<None, Some(ELitInt("1")), Some(EPath("AGG_NAME"))>>
      [] slot = "PARALLEL" ->
           <<Some(ECall(EPath("Some"), <<EPath("Safe")>>)), Some(ELitInt("1"))>>
      [] slot \in {"FINALIZE_MODIFY", "MOVING_FINALIZE_MODIFY"} ->
           <<Some(ECall(EPath("Some"), <<EPath("ReadWrite")>>))>>
      [] slot = "INITIAL_CONDITION" ->
           <<Some(ECall(EPath("Some"), <<ELitStr("0")>>)),
             Some(ELitStr("0")),
             Some(ELitInt("0")),
             Some(ECall(EPath("Some"), <<ELitInt("0")>>)),
             Some(ECall(EPath("from"), <<ELitStr("0")>>)),
             Some(ECall(EClosure, <<>>)),
             Some(EPath("None"))>>
      [] slot \in {"SORT_OPERATOR", "MOVING_INITIAL_CONDITION"} ->
           <<Some(ECall(EPath("Some"), <<ELitStr("<")>>)),
             Some(ELitInt("0")),
             Some(EPath("None"))>>
      [] slot = "HYPOTHETICAL" ->
           <<Some(ELitBool("true")), Some(ELitBool("false")),
             Some(ELitStr("true")), Some(EPath("YES"))>>
      [] slot = "State" ->
           <<Some(TPath("Self")),
             Some(TGeneric(<<"pgx">>, "PgVarlena", <<TPath("Self")>>)),
             Some(TTuple(<<TPath("i32"), TPath("i32")>>))>>
      [] slot = "MovingState" -> <<Some(TPath("i64"))>>
      [] slot = "OrderBy" ->
           <<Some(TTuple(<<TPath("i32"), TPath("f64")>>)), Some(TUnresolvable)>>
      [] slot = "Args" ->
           <<None, Some(TPath("f64")), Some(TUnit), Some(TUnresolvable),
             Some(TVariadic(TPath("i32"))),
             Some(TTuple(<<TPath("i32"), TVariadic(TPath("f64"))>>)),
             Some(TTuple(<<TVariadic(TPath("i32")), TPath("f64")>>))>>
           \o ArgsTuples
      [] slot = "Finalize" -> <<Some(TPath("i64"))>>
      [] OTHER -> <<~BaseSlots[slot]>>

\* the sets of at most k edits <<slot index, alternative index>> of the slots
\* i.. , no two of the same slot
RECURSIVE EditSets(_, _)
EditSets(i, k) ==
    IF i > Len(SlotNames) \/ k = 0 THEN {{}}
    ELSE EditSets(i + 1, k)
         \cup {es \cup {<<i, j>>} :
                 es \in EditSets(i + 1, k - 1),
                 j \in 1..Len(Alternatives(SlotNames[i]))}

\* BaseSlots with the edits applied
ApplyEdits(es) ==
    [slot \in DOMAIN BaseSlots |->
        LET i == CHOOSE n \in 1..Len(SlotNames) : SlotNames[n] = slot
        IN  IF \E e \in es : e[1] = i
            THEN Alternatives(slot)[(CHOOSE e \in es : e[1] = i)[2]]
            ELSE BaseSlots[slot]]

\* the items of the impl block, in the order an author writes them
OptConst(f, name) == [i \in 1..Len(f[name]) |-> ImplConst(name, f[name][i])]

OptType(f, name) == [i \in 1..Len(f[name]) |-> ImplType(name, f[name][i])]

OptMethod(f, name) == IF f[name] THEN <<UserMethod(name)>> ELSE <<>>

ItemsOf(f) ==
    OptType(f, "State") \o OptType(f, "MovingState") \o OptType(f, "OrderBy")
    \o OptType(f, "Args") \o OptType(f, "Finalize")
    \o OptConst(f, "NAME") \o OptConst(f, "PARALLEL") \o OptConst(f, "FINALIZE_MODIFY")
    \o OptConst(f, "MOVING_FINALIZE_MODIFY") \o OptConst(f, "INITIAL_CONDITION")
    \o OptConst(f, "SORT_OPERATOR") \o OptConst(f, "MOVING_INITIAL_CONDITION")
    \o OptConst(f, "HYPOTHETICAL")
    \o OptMethod(f, "state") \o OptMethod(f, "combine") \o OptMethod(f, "finalize")
    \o OptMethod(f, "serial") \o OptMethod(f, "deserial") \o OptMethod(f, "moving_state")
    \o OptMethod(f, "moving_state_inverse") \o OptMethod(f, "moving_finalize")

\* syn::ItemImpl
ItemImpl(self_ty, trait_, attrs, items) ==
    [self_ty |-> self_ty, trait_ |-> trait_, attrs |-> attrs, items |-> items]

\* the impl block of a slot assignment
InputOf(f) == ItemImpl(f.self_ty, f.trait_, f.attrs, ItemsOf(f))

(***************************************************************************)
(* Results: Ok(value), Err(message of the syn::Error, written without its  *)
(* backquotes), or a panic of the macro (an abort that is not a returned   *)
(* error).                                                                 *)
(***************************************************************************)
Ok(v) == [kind |-> "Ok", val |-> v, err |-> ""]

Err(msg) == [kind |-> "Err", val |-> <<>>, err |-> msg]

Panic(msg) == [kind |-> "Panic", val |-> <<>>, err |-> msg]

NotRun == [kind |-> "NotRun", val |-> <<>>, err |-> ""]

(***************************************************************************)
(* Lookups in the impl block: the last item of the kind with the name.     *)
(***************************************************************************)
LastItem(items, kind, name) ==
    LET idx == {i \in DOMAIN items : items[i].kind = kind /\ items[i].ident = name}
    IN  IF idx = {} THEN None
        ELSE Some(items[CHOOSE i \in idx : \A j \in idx : j <= i])

get_impl_type_by_name(item_impl, name) == LastItem(item_impl.items, "Type", name)

get_impl_func_by_name(item_impl, name) == LastItem(item_impl.items, "Method", name)

get_impl_const_by_name(item_impl, name) == LastItem(item_impl.items, "Const", name)

(***************************************************************************)
(* get_const_litstr: Option<String>, or a panic on an expression that is   *)
(* neither a literal nor a call.  Ok(None) is "no value".                  *)
(***************************************************************************)
get_const_litstr(item) ==
    LET e == item.expr
    IN  CASE e.k \in {"LitStr", "LitBool", "LitInt"} ->
               IF e.k = "LitStr" THEN Ok(Some(e.v)) ELSE Ok(None)
          [] e.k = "Call" ->
               LET func == e.args[1]
                   call_args == SubSeq(e.args, 2, Len(e.args))
               IN  IF func.k = "Path"
                   THEN IF func.v = "Some"
                        THEN IF IsNone(First(call_args)) THEN Ok(None)
                             ELSE IF Unwrap(First(call_args)).k = "LitStr"
                                  THEN Ok(Some(Unwrap(First(call_args)).v))
                                  ELSE Ok(None)
                        ELSE Ok(None)
                   ELSE Ok(None)
          [] OTHER -> Panic("Got expr")

\* get_impl_const_by_name(..).and_then(get_const_litstr)
ConstLitStr(item_impl, name) ==
    LET c == get_impl_const_by_name(item_impl, name)
    IN  IF IsNone(c) THEN Ok(None) ELSE get_const_litstr(Unwrap(c))

\* get_impl_const_by_name(..).map(|x| x.expr.clone())
ConstExpr(item_impl, name) ==
    LET c == get_impl_const_by_name(item_impl, name)
    IN  IF IsNone(c) THEN None ELSE Some(Unwrap(c).expr)

(***************************************************************************)
(* The target type.                                                        *)
(***************************************************************************)
\* a faulty get_target_path: a PgVarlena target is taken as it stands
get_target_path_NoUnwrap(item_impl) ==
    IF item_impl.self_ty.k = "Path" THEN Ok(item_impl.self_ty)
    ELSE Err("#[pg_aggregate] only works with types.")

get_target_path(item_impl) ==
    LET self_ty == item_impl.self_ty
    IN  IF self_ty.k = "Path"
        THEN IF self_ty.id = ""
             THEN Err("#[pg_aggregate] only works with types whose path have a final segment.")
             ELSE
             IF self_ty.id = "PgVarlena"
             THEN IF self_ty.angled
                  THEN IF IsNone(First(self_ty.args))
                       THEN Err("#[pg_aggregate] only works with PgVarlena declarations if they have a type contained.")
                       ELSE IF Unwrap(First(self_ty.args)).k = "Path"
                            THEN Ok(Unwrap(First(self_ty.args)))
                            ELSE Err("#[pg_aggregate] only works with PgVarlena declarations if they have a type path contained.")
                  ELSE Err("#[pg_aggregate] only works with PgVarlena declarations if they have a type contained.")
             ELSE Ok(self_ty)
        ELSE Err("#[pg_aggregate] only works with types.")

get_target_ident(path) ==
    IF path.id = ""
    THEN Err("#[pg_aggregate] only works with types whose path have a final segment.")
    ELSE Ok(path.id)

\* a faulty to_case_Snake: lower case without the word boundaries
to_case_Snake_Lower(ident) ==
    CASE ident = "MySum" -> "mysum"
      [] ident = "IntegerAvgState" -> "integeravgstate"
      [] ident = "PgVarlena" -> "pgvarlena"
      [] ident = "my_sum" -> "my_sum"

\* convert_case's Case::Snake on the identifiers of the input space
to_case_Snake(ident) ==
    CASE ident = "MySum" -> "my_sum"
      [] ident = "IntegerAvgState" -> "integer_avg_state"
      [] ident = "PgVarlena" -> "pg_varlena"
      [] ident = "my_sum" -> "my_sum"

\* a faulty TraitCheck: any trait is let through
TraitCheck_Lenient(item_impl) == Ok(<<>>)

\* a faulty TraitCheck: the lookup of `state` is made first
TraitCheck_StateFirst(item_impl) ==
    IF IsNone(get_impl_func_by_name(item_impl, "state"))
    THEN Err("Aggregate implementation must include state function.")
    ELSE IF IsSome(item_impl.trait_)
            /\ IsSome(Last(Unwrap(item_impl.trait_)))
            /\ Unwrap(Last(Unwrap(item_impl.trait_))) # "Aggregate"
         THEN Err("#[pg_aggregate] only works with the Aggregate trait.")
         ELSE Ok(<<>>)

\* the check of item_impl.trait_
TraitCheck(item_impl) ==
    IF IsSome(item_impl.trait_)
       /\ IsSome(Last(Unwrap(item_impl.trait_)))
       /\ Unwrap(Last(Unwrap(item_impl.trait_))) # "Aggregate"
    THEN Err("#[pg_aggregate] only works with the Aggregate trait.")
    ELSE Ok(<<>>)

\* syn::parse2::<PgAggregateAttrs>(attr.tokens)
PgAggregateAttrs_parse(attr) ==
    IF attr.parses THEN Ok(attr) ELSE Err("cannot parse the pg_aggregate options")

\* the loop over item_impl.attrs: the last `pg_aggregate` attribute, or the
\* first that does not parse
AggregateAttrs(item_impl) ==
    LET attrs == item_impl.attrs
        idx == {i \in DOMAIN attrs : attrs[i].last = "pg_aggregate"}
        bad == {i \in idx : PgAggregateAttrs_parse(attrs[i]).kind = "Err"}
    IN  IF bad # {}
        THEN PgAggregateAttrs_parse(attrs[CHOOSE i \in bad : \A j \in bad : i <= j])
        ELSE IF idx = {} THEN Ok(None)
             ELSE Ok(Some(attrs[CHOOSE i \in idx : \A j \in idx : j <= i]))

\* type_state_is_pgvarlena
TypeStateIsPgVarlena(type_state) ==
    IF IsSome(type_state)
    THEN IF Unwrap(type_state).ty.k = "Path"
         THEN Unwrap(type_state).ty.id = "PgVarlena"
         ELSE FALSE
    ELSE FALSE

(***************************************************************************)
(* The argument-list resolvers (aggregate_type.rs, maybe_variadic_type.rs).*)
(***************************************************************************)
\* one entry of a resolved list: the element type and, for the variadic
\* wrapper, the wrapped type next to the flattened element type
MaybeVariadicType_new(t) ==
    IF t.k = "Variadic"
    THEN [ty |-> t.args[1], variadic_ty |-> Some(t)]
    ELSE [ty |-> t, variadic_ty |-> None]

ListElems(t) == IF t.k = "Tuple" THEN t.args ELSE <<t>>

MaybeVariadicTypeList_new(t) ==
    LET elems == ListElems(t)
    IN  IF \E i \in DOMAIN elems : elems[i].k = "Infer"
        THEN Err("cannot resolve the type of an argument")
        ELSE IF \E i \in DOMAIN elems : elems[i].k = "Variadic" /\ i # Len(elems)
             THEN Err("only the last argument may be variadic")
             ELSE Ok([found |-> [i \in DOMAIN elems |-> MaybeVariadicType_new(elems[i])],
                      original |-> t])

AggregateTypeList_new(t) ==
    LET elems == ListElems(t)
    IN  IF \E i \in DOMAIN elems : elems[i].k = "Infer"
        THEN Err("cannot resolve the type of an ordering argument")
        ELSE Ok([found |-> elems, original |-> t])

(***************************************************************************)
(* The generated #[pg_extern] functions.  A body is one call: `form` is    *)
(* "path" for `<T as pgx::Aggregate>::callee(args)` and "method" for       *)
(* `this.callee(args)`; `packed` holds the names that are passed together  *)
(* as one trailing tuple argument, if there is one.                        *)
(***************************************************************************)
Call(form, on, callee, args, packed) ==
    [form |-> form, on |-> on, callee |-> callee, args |-> args, packed |-> packed]

ItemFn(name, params, ret, body) ==
    [name |-> name, params |-> params, ret |-> ret, body |-> body]

\* maybe_varlena_target_path
MaybeVarlenaTargetPath(type_state_is_pgvarlena, target_path) ==
    IF type_state_is_pgvarlena THEN TPgVarlena(target_path) ELSE target_path

\* x.variadic_ty.clone().unwrap_or(x.ty.clone()) over type_args_value.found
ArgTypes(type_args_value) ==
    [i \in DOMAIN type_args_value.found |->
        IF IsSome(type_args_value.found[i].variadic_ty)
        THEN Unwrap(type_args_value.found[i].variadic_ty)
        ELSE type_args_value.found[i].ty]

\* a faulty ArgsWithNames: the types are paired with the names in reverse order
ArgsWithNames_Reversed(args) ==
    [i \in 1..Min(Len(args), Len(ARG_NAMES)) |->
        Param(ARG_NAMES[i], args[Min(Len(args), Len(ARG_NAMES)) + 1 - i])]

\* args.iter().zip(ARG_NAMES.iter()): stops at the shorter of the two
ArgsWithNames(args) ==
    [i \in 1..Min(Len(args), Len(ARG_NAMES)) |-> Param(ARG_NAMES[i], args[i])]

\* ARG_NAMES[0..args.len()]: the slice panics past the end of the pool
ArgNames(args) ==
    IF Len(args) > Len(ARG_NAMES)
    THEN Panic("range end index out of range for slice")
    ELSE Ok(SubSeq(ARG_NAMES, 1, Len(args)))

StateFn(snake, target_path, mvtp, type_args_value) ==
    LET args == ArgTypes(type_args_value)
        arg_names == ArgNames(args)
    IN  IF arg_names.kind = "Panic" THEN arg_names
        ELSE Ok(ItemFn(snake \o "_state",
                       <<Param("this", mvtp)>> \o ArgsWithNames(args),
                       mvtp,
                       Call("path", target_path, "state",
                            <<"this">> \o arg_names.val, None)))

CombineFn(snake, target_path, mvtp) ==
    ItemFn(snake \o "_combine",
           <<Param("this", mvtp), Param("v", mvtp)>>,
           mvtp,
           Call("path", target_path, "combine", <<"this", "v">>, None))

CombineStub(target_path, mvtp) ==
    ImplMethod("combine",
               <<Param("current", mvtp), Param("_other", mvtp)>>,
               mvtp,
               "Call to combine on an aggregate which does not support it.")

FinalizeFn(snake, target_path, mvtp) ==
    ItemFn(snake \o "_finalize",
           <<Param("this", mvtp)>>,
           TQSelf(target_path, "Finalize"),
           Call("path", target_path, "finalize", <<"this">>, None))

FinalizeStub(target_path, mvtp) ==
    ImplMethod("finalize",
               <<Param("current", mvtp)>>,
               TSelfAssoc("Finalize"),
               "Call to finalize on an aggregate which does not support it.")

SerialFn(snake, target_path, mvtp) ==
    ItemFn(snake \o "_serial",
           <<Param("this", target_path)>>,
           TVecU8,
           Call("method", target_path, "serial", <<"this">>, None))

SerialStub(target_path, mvtp) ==
    ImplMethod("serial",
               <<Param("current", mvtp)>>,
               TVecU8,
               "Call to serial on an aggregate which does not support it.")

DeserialFn(snake, target_path, mvtp) ==
    ItemFn(snake \o "_deserial",
           <<Param("this", mvtp), Param("buf", TVecU8), Param("internal", TPgBox(mvtp))>>,
           TPgBox(mvtp),
           Call("method", target_path, "deserial", <<"this", "buf", "internal">>, None))

DeserialStub(target_path, mvtp) ==
    ImplMethod("deserial",
               <<Param("current", mvtp), Param("_buf", TVecU8),
                 Param("_internal", TPgBox(TPath("Self")))>>,
               TPgBox(TPath("Self")),
               "Call to deserial on an aggregate which does not support it.")

MovingStateFn(snake, target_path, mvtp, type_args_value) ==
    LET args == ArgTypes(type_args_value)
        arg_names == ArgNames(args)
    IN  IF arg_names.kind = "Panic" THEN arg_names
        ELSE Ok(ItemFn(snake \o "_moving_state",
                       <<Param("mstate", TQSelf(target_path, "MovingState"))>>
                           \o ArgsWithNames(args),
                       TQSelf(target_path, "MovingState"),
                       Call("path", target_path, "moving_state",
                            <<"mstate">>, Some(arg_names.val))))

MovingStateStub(target_path, mvtp) ==
    ImplMethod("moving_state",
               <<Param("_mstate", TQSelf(target_path, "MovingState")),
                 Param("_v", TSelfAssoc("Args"))>>,
               TQSelf(target_path, "MovingState"),
               "Call to moving_state on an aggregate which does not support it.")

MovingStateInverseFn(snake, target_path, mvtp) ==
    ItemFn(snake \o "_moving_state_inverse",
           <<Param("mstate", TQSelf(target_path, "MovingState")),
             Param("v", TQSelf(target_path, "Args"))>>,
           TQSelf(target_path, "MovingState"),
           Call("path", target_path, "moving_state", <<"mstate", "v">>, None))

MovingStateInverseStub(target_path, mvtp) ==
    ImplMethod("moving_state_inverse",
               <<Param("_mstate", TQSelf(target_path, "MovingState")),
                 Param("_v", TSelfAssoc("Args"))>>,
               TQSelf(target_path, "MovingState"),
               "Call to moving_state on an aggregate which does not support it.")

MovingFinalizeFn(snake, target_path, mvtp) ==
    ItemFn(snake \o "_moving_finalize",
           <<Param("mstate", TQSelf(target_path, "MovingState"))>>,
           TQSelf(target_path, "Finalize"),
           Call("path", target_path, "moving_finalize", <<"mstate">>, None))

MovingFinalizeStub(target_path, mvtp) ==
    ImplMethod("moving_finalize",
               <<Param("_mstate", TSelfAssoc("MovingState"))>>,
               TSelfAssoc("Finalize"),
               "Call to moving_finalize on an aggregate which does not support it.")

(***************************************************************************)
(* PgAggregate::new.                                                       *)
(***************************************************************************)
\* a faulty Hypothetical: anything but the literal `true` counts as false
Hypothetical_Lenient(item_impl) ==
    LET value == get_impl_const_by_name(item_impl, "HYPOTHETICAL")
    IN  Ok(IsSome(value) /\ Unwrap(value).expr = ELitBool("true"))

\* the `hypothetical` field: a literal boolean, false when absent
Hypothetical(item_impl) ==
    LET value == get_impl_const_by_name(item_impl, "HYPOTHETICAL")
    IN  IF IsSome(value)
        THEN IF Unwrap(value).expr.k = "LitBool"
             THEN Ok(Unwrap(value).expr.v = "true")
             ELSE Err("#[pg_aggregate] required the HYPOTHETICAL value to be a literal boolean.")
        ELSE Ok(FALSE)

\* a faulty RequireArgs: a missing `Args` defaults to the unit type
RequireArgs_Defaulting(type_args) ==
    IF IsNone(type_args) THEN Ok(ImplType("Args", TUnit)) ELSE Ok(Unwrap(type_args))

\* get_impl_type_by_name(.., "Args").ok_or_else(..)?
RequireArgs(type_args) ==
    IF IsNone(type_args)
    THEN Err("#[pg_aggregate] requires the Args type defined.")
    ELSE Ok(Unwrap(type_args))

\* a faulty RequireState: a missing `state` is let through
RequireState_Lenient(fn_state) ==
    IF IsNone(fn_state) THEN Ok(UserMethod("state")) ELSE Ok(Unwrap(fn_state))

\* the else branch of `if let Some(found) = fn_state`
RequireState(fn_state) ==
    IF IsNone(fn_state)
    THEN Err("Aggregate implementation must include state function.")
    ELSE Ok(Unwrap(fn_state))

\* a faulty TypeDefaults: no default is pushed for an absent OrderBy
TypeDefaults_NoOrderBy(item_impl) ==
    (IF IsNone(get_impl_type_by_name(item_impl, "State"))
     THEN <<ImplType("ReturnType", TPath("Self"))>> ELSE <<>>)
    \o (IF IsNone(get_impl_type_by_name(item_impl, "MovingState"))
        THEN <<ImplType("MovingState", TUnit)>> ELSE <<>>)
    \o (IF IsNone(get_impl_type_by_name(item_impl, "Finalize"))
        THEN <<ImplType("Finalize", TUnit)>> ELSE <<>>)

\* the defaults pushed for the absent associated types
TypeDefaults(item_impl) ==
    (IF IsNone(get_impl_type_by_name(item_impl, "State"))
     THEN <<ImplType("ReturnType", TPath("Self"))>> ELSE <<>>)
    \o (IF IsNone(get_impl_type_by_name(item_impl, "MovingState"))
        THEN <<ImplType("MovingState", TUnit)>> ELSE <<>>)
    \o (IF IsNone(get_impl_type_by_name(item_impl, "OrderBy"))
        THEN <<ImplType("OrderBy", TUnit)>> ELSE <<>>)
    \o (IF IsNone(get_impl_type_by_name(item_impl, "Finalize"))
        THEN <<ImplType("Finalize", TUnit)>> ELSE <<>>)

\* a faulty FnName: the name is recorded whether or not the method is present
FnName_Always(item_impl, method, wrapper) == Some(wrapper.name)

\* Some(name of the wrapper) when the method is in the impl block
FnName(item_impl, method, wrapper) ==
    IF IsSome(get_impl_func_by_name(item_impl, method)) THEN Some(wrapper.name) ELSE None

\* a faulty FnExtern: the wrapper is generated whether or not the method is present
FnExtern_Always(item_impl, method, wrapper) == <<wrapper>>

\* the wrapper pushed to pg_externs when the method is in the impl block
FnExtern(item_impl, method, wrapper) ==
    IF IsSome(get_impl_func_by_name(item_impl, method)) THEN <<wrapper>> ELSE <<>>

\* the stub pushed to item_impl.items when the method is not in the impl block
FnStub(item_impl, method, stub) ==
    IF IsSome(get_impl_func_by_name(item_impl, method)) THEN <<>> ELSE <<stub>>

PgAggregate_new(item_impl) ==
    LET target == get_target_path(item_impl)
    IN  IF target.kind # "Ok" THEN target ELSE
    LET target_path == target.val
        target_ident == get_target_ident(target_path)
    IN  IF target_ident.kind # "Ok" THEN target_ident ELSE
    LET snake == to_case_Snake(target_ident.val)
        trait_check == TraitCheck(item_impl)
    IN  IF trait_check.kind # "Ok" THEN trait_check ELSE
    LET aggregate_attrs == AggregateAttrs(item_impl)
    IN  IF aggregate_attrs.kind # "Ok" THEN aggregate_attrs ELSE
    LET type_state == get_impl_type_by_name(item_impl, "State")
        type_moving_state == get_impl_type_by_name(item_impl, "MovingState")
        type_order_by == get_impl_type_by_name(item_impl, "OrderBy")
        type_order_by_value ==
            IF IsSome(type_order_by)
            THEN AggregateTypeList_new(Unwrap(type_order_by).ty)
            ELSE Ok(<<>>)
    IN  IF type_order_by_value.kind # "Ok" THEN type_order_by_value ELSE
    LET type_args == RequireArgs(get_impl_type_by_name(item_impl, "Args"))
    IN  IF type_args.kind # "Ok" THEN type_args ELSE
    LET type_args_value == MaybeVariadicTypeList_new(type_args.val.ty)
    IN  IF type_args_value.kind # "Ok" THEN type_args_value ELSE
    LET type_finalize == get_impl_type_by_name(item_impl, "Finalize")
        mvtp == MaybeVarlenaTargetPath(TypeStateIsPgVarlena(type_state), target_path)
        fn_state == RequireState(get_impl_func_by_name(item_impl, "state"))
    IN  IF fn_state.kind # "Ok" THEN fn_state ELSE
    LET state_fn == StateFn(snake, target_path, mvtp, type_args_value.val)
    IN  IF state_fn.kind # "Ok" THEN state_fn ELSE
    LET moving_state_fn ==
            IF IsSome(get_impl_func_by_name(item_impl, "moving_state"))
            THEN MovingStateFn(snake, target_path, mvtp, type_args_value.val)
            ELSE Ok(state_fn.val)
    IN  IF moving_state_fn.kind # "Ok" THEN moving_state_fn ELSE
    LET combine_fn == CombineFn(snake, target_path, mvtp)
        finalize_fn == FinalizeFn(snake, target_path, mvtp)
        serial_fn == SerialFn(snake, target_path, mvtp)
        deserial_fn == DeserialFn(snake, target_path, mvtp)
        moving_state_inverse_fn == MovingStateInverseFn(snake, target_path, mvtp)
        moving_finalize_fn == MovingFinalizeFn(snake, target_path, mvtp)
        pg_externs ==
            <<state_fn.val>>
            \o FnExtern(item_impl, "combine", combine_fn)
            \o FnExtern(item_impl, "finalize", finalize_fn)
            \o FnExtern(item_impl, "serial", serial_fn)
            \o FnExtern(item_impl, "deserial", deserial_fn)
            \o FnExtern(item_impl, "moving_state", moving_state_fn.val)
            \o FnExtern(item_impl, "moving_state_inverse", moving_state_inverse_fn)
            \o FnExtern(item_impl, "moving_finalize", moving_finalize_fn)
        items ==
            item_impl.items
            \o TypeDefaults(item_impl)
            \o FnStub(item_impl, "combine", CombineStub(target_path, mvtp))
            \o FnStub(item_impl, "finalize", FinalizeStub(target_path, mvtp))
            \o FnStub(item_impl, "serial", SerialStub(target_path, mvtp))
            \o FnStub(item_impl, "deserial", DeserialStub(target_path, mvtp))
            \o FnStub(item_impl, "moving_state", MovingStateStub(target_path, mvtp))
            \o FnStub(item_impl, "moving_state_inverse",
                      MovingStateInverseStub(target_path, mvtp))
            \o FnStub(item_impl, "moving_finalize", MovingFinalizeStub(target_path, mvtp))
        const_initial_condition == ConstLitStr(item_impl, "INITIAL_CONDITION")
        const_sort_operator == ConstLitStr(item_impl, "SORT_OPERATOR")
        const_moving_intial_condition == ConstLitStr(item_impl, "MOVING_INITIAL_CONDITION")
    IN  IF const_initial_condition.kind # "Ok" THEN const_initial_condition ELSE
        IF const_sort_operator.kind # "Ok" THEN const_sort_operator ELSE
        IF const_moving_intial_condition.kind # "Ok" THEN const_moving_intial_condition ELSE
    LET hypothetical == Hypothetical(item_impl)
    IN  IF hypothetical.kind # "Ok" THEN hypothetical ELSE
        Ok([aggregate_attrs |-> aggregate_attrs.val,
            item_impl |-> [item_impl EXCEPT !.items = items],
            pg_externs |-> pg_externs,
            type_args |-> type_args_value.val,
            type_order_by |->
                IF IsSome(type_order_by) THEN Some(type_order_by_value.val) ELSE None,
            type_finalize |->
                IF IsSome(type_finalize) THEN Some(Unwrap(type_finalize).ty) ELSE None,
            type_moving_state |->
                IF IsSome(type_moving_state) THEN Some(Unwrap(type_moving_state).ty) ELSE None,
            const_parallel |-> ConstExpr(item_impl, "PARALLEL"),
            const_finalize_modify |-> ConstExpr(item_impl, "FINALIZE_MODIFY"),
            const_moving_finalize_modify |-> ConstExpr(item_impl, "MOVING_FINALIZE_MODIFY"),
            const_initial_condition |-> const_initial_condition.val,
            const_sort_operator |-> const_sort_operator.val,
            const_moving_intial_condition |-> const_moving_intial_condition.val,
            fn_state |-> state_fn.val.name,
            fn_finalize |-> FnName(item_impl, "finalize", finalize_fn),
            fn_combine |-> FnName(item_impl, "combine", combine_fn),
            fn_serial |-> FnName(item_impl, "serial", serial_fn),
            fn_deserial |-> FnName(item_impl, "deserial", deserial_fn),
            fn_moving_state |-> FnName(item_impl, "moving_state", moving_state_fn.val),
            fn_moving_state_inverse |->
                FnName(item_impl, "moving_state_inverse", moving_state_inverse_fn),
            fn_moving_finalize |-> FnName(item_impl, "moving_finalize", moving_finalize_fn),
            hypothetical |-> hypothetical.val])

(***************************************************************************)
(* PgAggregate::entity_tokens: the function that returns the               *)
(* PgAggregateEntity descriptor.  It panics without a literal string NAME. *)
(***************************************************************************)
EntityName(item_impl) ==
    LET c == get_impl_const_by_name(item_impl, "NAME")
    IN  IF IsNone(c)
        THEN Panic("NAME is a required const for Aggregate implementations.")
        ELSE IF Unwrap(c).expr.k = "LitStr"
             THEN Ok(Unwrap(c).expr.v)
             ELSE Panic("NAME: &'static str is a required const for Aggregate implementations.")

entity_tokens(self) ==
    LET target == get_target_path(self.item_impl)
    IN  IF target.kind # "Ok"
        THEN Panic("Expected constructed PgAggregate to have target path.") ELSE
    LET target_ident == get_target_ident(target.val)
    IN  IF target_ident.kind # "Ok"
        THEN Panic("Expected constructed PgAggregate to have target ident.") ELSE
    LET name == EntityName(self.item_impl)
    IN  IF name.kind # "Ok" THEN name ELSE
        Ok([fn_name |-> "__pgx_internals_aggregate_" \o to_case_Snake(target_ident.val),
            full_path |-> target_ident.val,
            name |-> name.val,
            ty_id |-> target_ident.val,
            args |-> self.type_args,
            order_by |-> self.type_order_by,
            stype |-> target_ident.val,
            sfunc |-> self.fn_state,
            combinefunc |-> self.fn_combine,
            finalfunc |-> self.fn_finalize,
            finalfunc_modify |-> self.const_finalize_modify,
            initcond |-> self.const_initial_condition,
            serialfunc |-> self.fn_serial,
            deserialfunc |-> self.fn_deserial,
            msfunc |-> self.fn_moving_state,
            minvfunc |-> self.fn_moving_state_inverse,
            mstype |-> self.type_moving_state,
            mfinalfunc |-> self.fn_moving_finalize,
            mfinalfunc_modify |-> self.const_moving_finalize_modify,
            minitcond |-> self.const_moving_intial_condition,
            sortop |-> self.const_sort_operator,
            parallel |-> self.const_parallel,
            hypothetical |-> self.hypothetical])

\* a faulty to_tokens: the impl block and the wrappers are emitted although
\* the entity function could not be built
to_tokens_Partial(self) ==
    Ok([impl_item |-> self.item_impl,
        pg_externs |-> self.pg_externs,
        entity_fn |-> IF entity_tokens(self).kind = "Ok"
                      THEN entity_tokens(self).val ELSE <<>>])

\* impl ToTokens for PgAggregate: the impl block, the wrappers, the entity function
to_tokens(self) ==
    LET entity_fn == entity_tokens(self)
    IN  IF entity_fn.kind # "Ok" THEN entity_fn
        ELSE Ok([impl_item |-> self.item_impl,
                 pg_externs |-> self.pg_externs,
                 entity_fn |-> entity_fn.val])

(***************************************************************************)
(* The macro expansion of one impl block: parse (PgAggregate::new), then   *)
(* emit (to_tokens) when parsing returned Ok.                              *)
(***************************************************************************)
\* build.rs before main has started the parallel loop
BuildScriptStart ==
    /\ worker = [v \in PgVersions |-> "start"]
    /\ shim_mutex = [holder |-> 0, poisoned |-> FALSE]
    /\ bindings_rs = [v \in PgVersions |-> None]
    /\ main_pc = "par_iter"
    /\ versions = <<>>
    /\ common = {}
    /\ written = None

Init ==
    /\ \E es \in EditSets(1, MaxEdits) : input = InputOf(ApplyEdits(es))
    /\ agg = NotRun
    /\ tokens = NotRun
    /\ pc = "parsed"
    /\ done = <<>>
    /\ BuildScriptStart

\* a faulty Parse: the wrappers of the previous expansion are still in
\* pg_externs, as if the vector outlived one call of PgAggregate::new
Parse_Accumulating ==
    /\ pc = "parsed"
    /\ agg' = IF Len(done) > 0 /\ done[Len(done)].agg.kind = "Ok"
                 /\ PgAggregate_new(input).kind = "Ok"
              THEN [PgAggregate_new(input) EXCEPT
                       !.val.pg_externs = done[Len(done)].agg.val.pg_externs \o @]
              ELSE PgAggregate_new(input)
    /\ pc' = "constructed"
    /\ UNCHANGED <<input, tokens, done>>
    /\ UNCHANGED buildVars

Parse ==
    /\ pc = "parsed"
    /\ agg' = PgAggregate_new(input)
    /\ pc' = "constructed"
    /\ UNCHANGED <<input, tokens, done>>
    /\ UNCHANGED buildVars

Emit ==
    /\ pc = "constructed"
    /\ agg.kind = "Ok"
    /\ tokens' = to_tokens(agg.val)
    /\ pc' = "emitted"
    /\ UNCHANGED <<input, agg, done>>
    /\ UNCHANGED buildVars

Next == Parse \/ Emit

Spec == Init /\ [][Next]_vars

(***************************************************************************)
(* A build with several impl blocks: the macro is expanded once per block, *)
(* each expansion a fresh call of Parse and ToTokens.  After an expansion  *)
(* has ended (emitted, or rejected by PgAggregate::new) the next block is  *)
(* either the same specification again or the canonical one.               *)
(***************************************************************************)
\* the expansion at hand has ended
Expanded == pc = "emitted" \/ (pc = "constructed" /\ agg.kind # "Ok")

BuildInit ==
    /\ \E es \in EditSets(1, MaxBuildEdits) : input = InputOf(ApplyEdits(es))
    /\ agg = NotRun
    /\ tokens = NotRun
    /\ pc = "parsed"
    /\ done = <<>>
    /\ BuildScriptStart

NextBlock ==
    /\ Expanded
    /\ Len(done) < MaxSiblings
    /\ done' = Append(done, [input |-> input, agg |-> agg, tokens |-> tokens])
    /\ \E next \in {input, InputOf(BaseSlots)} : input' = next
    /\ agg' = NotRun
    /\ tokens' = NotRun
    /\ pc' = "parsed"
    /\ UNCHANGED buildVars

BuildNext == Parse \/ Emit \/ NextBlock

BuildSpec == BuildInit /\ [][BuildNext]_vars

(***************************************************************************)
(* What the input specification contains, read off the impl block.         *)
(***************************************************************************)
(***************************************************************************)
(* build.rs, bindings_diff::build_common_set.                              *)
(***************************************************************************)
\* a faulty all_contain: one version that has the key is enough
all_contain_Any(maps, key) == \E i \in DOMAIN maps : key \in maps[i]

\* all_contain: no map lacks the key
all_contain(maps, key) == \A i \in DOMAIN maps : key \in maps[i]

\* the inner loop `for key in map.iter()`: insert the keys that every version has
RECURSIVE ScanKeys(_, _, _)
ScanKeys(keys, maps, acc) ==
    IF keys = {} THEN acc
    ELSE LET key == CHOOSE k \in keys : TRUE
         IN  ScanKeys(keys \ {key}, maps,
                      IF key \notin acc /\ all_contain(maps, key)
                      THEN acc \cup {key} ELSE acc)

\* the outer loop `for map in versions.iter()`
RECURSIVE ScanMaps(_, _, _)
ScanMaps(i, maps, acc) ==
    IF i > Len(maps) THEN acc
    ELSE ScanMaps(i + 1, maps, ScanKeys(maps[i], maps, acc))

\* the second loop: map.remove(key) for every key of common, in every version
RemoveCommon(maps, acc) == [i \in DOMAIN maps |-> maps[i] \ acc]

\* build_common_set: the returned set, and the version sets as it leaves them
build_common_set(maps) ==
    [common |-> ScanMaps(1, maps, {}),
     versions |-> RemoveCommon(maps, ScanMaps(1, maps, {}))]

(***************************************************************************)
(* build.rs, main: the closure of pg_configs.into_par_iter().for_each runs *)
(* once per version, on any thread of the pool; for_each returns when all  *)
(* have ended, and resumes the panic of a closure that panicked.           *)
(***************************************************************************)
\* run_bindgen: the bindings are generated and written to src/pgNN_bindings.rs
RunBindgen(v) ==
    /\ worker[v] = "start"
    /\ \E items \in SUBSET Items :
          bindings_rs' = [bindings_rs EXCEPT ![v] = Some(items)]
    /\ worker' = [worker EXCEPT ![v] = "bindgen_done"]
    /\ UNCHANGED <<shim_mutex, main_pc, versions, common, written>>
    /\ UNCHANGED aggVars

\* run_bindgen panics: bindgen fails or the file cannot be written
BindgenPanics(v) ==
    /\ worker[v] = "start"
    /\ worker' = [worker EXCEPT ![v] = "panicked"]
    /\ UNCHANGED <<shim_mutex, bindings_rs, main_pc, versions, common, written>>
    /\ UNCHANGED aggVars

\* a faulty LockShim: the shim is built without waiting for the mutex
LockShim_NoMutex(v) ==
    /\ worker[v] = "bindgen_done"
    /\ shim_mutex' = [shim_mutex EXCEPT !.holder = v]
    /\ worker' = [worker EXCEPT ![v] = "in_shim"]
    /\ UNCHANGED <<bindings_rs, main_pc, versions, common, written>>
    /\ UNCHANGED aggVars

\* build_shim: shim_mutex.lock() returns the guard
LockShim(v) ==
    /\ worker[v] = "bindgen_done"
    /\ shim_mutex.holder = 0
    /\ ~shim_mutex.poisoned
    /\ shim_mutex' = [shim_mutex EXCEPT !.holder = v]
    /\ worker' = [worker EXCEPT ![v] = "in_shim"]
    /\ UNCHANGED <<bindings_rs, main_pc, versions, common, written>>
    /\ UNCHANGED aggVars

\* build_shim: shim_mutex.lock() returns a PoisonError and expect() panics
LockPoisoned(v) ==
    /\ worker[v] = "bindgen_done"
    /\ shim_mutex.holder = 0
    /\ shim_mutex.poisoned
    /\ worker' = [worker EXCEPT ![v] = "panicked"]
    /\ UNCHANGED <<shim_mutex, bindings_rs, main_pc, versions, common, written>>
    /\ UNCHANGED aggVars

\* build_shim: the shim is built and the guard is dropped at the end
ShimBuilt(v) ==
    /\ worker[v] = "in_shim"
    /\ shim_mutex' = [shim_mutex EXCEPT !.holder = 0]
    /\ worker' = [worker EXCEPT ![v] = "done"]
    /\ UNCHANGED <<bindings_rs, main_pc, versions, common, written>>
    /\ UNCHANGED aggVars

\* build_shim: the shim build panics; unwinding drops the guard and poisons the mutex
ShimFails(v) ==
    /\ worker[v] = "in_shim"
    /\ shim_mutex' = [holder |-> 0, poisoned |-> TRUE]
    /\ worker' = [worker EXCEPT ![v] = "panicked"]
    /\ UNCHANGED <<bindings_rs, main_pc, versions, common, written>>
    /\ UNCHANGED aggVars

\* for_each has returned: generate_common_rs calls bindings_diff::main, which
\* reads the three bindings files
GenerateCommonRs ==
    /\ main_pc = "par_iter"
    /\ \A v \in PgVersions : worker[v] = "done"
    /\ versions' = [i \in DOMAIN VersionList |-> Unwrap(bindings_rs[VersionList[i]])]
    /\ main_pc' = "read"
    /\ UNCHANGED <<worker, shim_mutex, bindings_rs, common, written>>
    /\ UNCHANGED aggVars

\* for_each resumes the panic of a closure once all closures have ended
ParIterPanics ==
    /\ main_pc = "par_iter"
    /\ \A v \in PgVersions : worker[v] \in {"done", "panicked"}
    /\ \E v \in PgVersions : worker[v] = "panicked"
    /\ main_pc' = "panicked"
    /\ UNCHANGED <<worker, shim_mutex, bindings_rs, versions, common, written>>
    /\ UNCHANGED aggVars

\* bindings_diff::main: let common = build_common_set(&mut versions)
BuildCommonSet ==
    /\ main_pc = "read"
    /\ common' = build_common_set(versions).common
    /\ versions' = build_common_set(versions).versions
    /\ main_pc' = "built"
    /\ UNCHANGED <<worker, shim_mutex, bindings_rs, written>>
    /\ UNCHANGED aggVars

\* bindings_diff::main: write_common_file and write_source_file
WriteFiles ==
    /\ main_pc = "built"
    /\ written' = Some([common_rs |-> common, specific_rs |-> versions])
    /\ main_pc' = "written"
    /\ UNCHANGED <<worker, shim_mutex, bindings_rs, versions, common>>
    /\ UNCHANGED aggVars

\* bindings_diff::main: the bindings files are deleted
RemoveBindings ==
    /\ main_pc = "written"
    /\ bindings_rs' = [v \in PgVersions |-> None]
    /\ main_pc' = "done"
    /\ UNCHANGED <<worker, shim_mutex, versions, common, written>>
    /\ UNCHANGED aggVars

BuildScriptInit ==
    /\ input = InputOf(BaseSlots)
    /\ agg = NotRun
    /\ tokens = NotRun
    /\ pc = "parsed"
    /\ done = <<>>
    /\ BuildScriptStart

BuildScriptNext ==
    \/ \E v \in PgVersions :
          \/ RunBindgen(v)
          \/ BindgenPanics(v)
          \/ LockShim(v)
          \/ LockPoisoned(v)
          \/ ShimBuilt(v)
          \/ ShimFails(v)
    \/ GenerateCommonRs
    \/ ParIterPanics
    \/ BuildCommonSet
    \/ WriteFiles
    \/ RemoveBindings

BuildScriptSpec == BuildScriptInit /\ [][BuildScriptNext]_vars

InHas(kind, name) ==
    \E i \in DOMAIN input.items :
        input.items[i].kind = kind /\ input.items[i].ident = name

InItem(kind, name) ==
    input.items[CHOOSE i \in DOMAIN input.items :
                    input.items[i].kind = kind /\ input.items[i].ident = name]

InHasMethod(name) == InHas("Method", name)

InHasType(name) == InHas("Type", name)

InHasConst(name) == InHas("Const", name)

InConst(name) == InItem("Const", name).expr

InType(name) == InItem("Type", name).ty

\* the optional methods the author wrote
PresentOptional == {m \in OptionalMethods : InHasMethod(m)}

\* the target names a type path, and a PgVarlena target contains a type path
TargetResolves ==
    /\ input.self_ty.k = "Path"
    /\ input.self_ty.id = "PgVarlena" =>
          /\ input.self_ty.angled
          /\ Len(input.self_ty.args) > 0
          /\ input.self_ty.args[1].k = "Path"

\* the impl names no trait, or a trait whose last segment is Aggregate
TraitAccepted ==
    \/ Len(input.trait_) = 0
    \/ input.trait_[1][Len(input.trait_[1])] = "Aggregate"

\* every pg_aggregate attribute parses
AttrsAccepted ==
    \A i \in DOMAIN input.attrs :
        input.attrs[i].last = "pg_aggregate" => input.attrs[i].parses

\* the elements of a declared list type
Elems(t) == IF t.k = "Tuple" THEN t.args ELSE <<t>>

OrderByAccepted ==
    InHasType("OrderBy") =>
        \A i \in DOMAIN Elems(InType("OrderBy")) : Elems(InType("OrderBy"))[i].k # "Infer"

ArgsAccepted ==
    /\ InHasType("Args")
    /\ \A i \in DOMAIN Elems(InType("Args")) :
          /\ Elems(InType("Args"))[i].k # "Infer"
          /\ Elems(InType("Args"))[i].k = "Variadic" => i = Len(Elems(InType("Args")))

\* the number of arguments the declared Args resolve to
ArgCount == Len(Elems(InType("Args")))

\* the checks that PgAggregate::new makes before it looks for `Args`
PassesBeforeArgs == TargetResolves /\ TraitAccepted /\ AttrsAccepted /\ OrderByAccepted

\* the checks that PgAggregate::new makes before it looks for `state`
PassesBeforeState == PassesBeforeArgs /\ ArgsAccepted

\* a string-valued constant is absent, a literal or a call
LitStrReadable(name) == InHasConst(name) => InConst(name).k \in {"LitStr", "LitBool", "LitInt", "Call"}

\* every step of PgAggregate::new before the HYPOTHETICAL constant completes
PassesBeforeHypothetical ==
    /\ PassesBeforeState
    /\ InHasMethod("state")
    /\ ArgCount <= Len(ARG_NAMES)
    /\ LitStrReadable("INITIAL_CONDITION")
    /\ LitStrReadable("SORT_OPERATOR")
    /\ LitStrReadable("MOVING_INITIAL_CONDITION")

\* the error messages of PgAggregate::new and the kinds of the error taxonomy
MissingState == "Aggregate implementation must include state function."

MissingArgs == "#[pg_aggregate] requires the Args type defined."

InvalidHypothetical ==
    "#[pg_aggregate] required the HYPOTHETICAL value to be a literal boolean."

\* PgAggregate::new has returned
Constructed == pc # "parsed"

\* to_tokens has emitted the impl block, the wrappers and the descriptor
Emitted == pc = "emitted" /\ tokens.kind = "Ok"

\* the descriptor's function field of an optional method
DescriptorFn(entity, m) ==
    CASE m = "combine" -> entity.combinefunc
      [] m = "finalize" -> entity.finalfunc
      [] m = "serial" -> entity.serialfunc
      [] m = "deserial" -> entity.deserialfunc
      [] m = "moving_state" -> entity.msfunc
      [] m = "moving_state_inverse" -> entity.minvfunc
      [] m = "moving_finalize" -> entity.mfinalfunc

\* the generated functions named n
Generated(n) == {i \in DOMAIN tokens.val.pg_externs : tokens.val.pg_externs[i].name = n}

(***************************************************************************)
(* The claims.                                                             *)
(***************************************************************************)

\* C1: PgAggregate::new on a specification without a `state` method returns an
\* error, whatever else the specification holds, so that no function and no
\* descriptor is produced; the error is the missing-state error
\* (MissingRequiredComponent("state")) whenever the checks that come before
\* the lookup of `state` pass.
C1_MissingStateFails ==
    (Constructed /\ ~InHasMethod("state")) =>
        /\ agg.kind = "Err"
        /\ tokens.kind = "NotRun"
        /\ PassesBeforeState => agg.err = MissingState

\* C1 witness: a specification with `combine` but no `state` got the missing-state error
C1_Witness ==
    /\ Constructed
    /\ ~InHasMethod("state")
    /\ InHasMethod("combine")
    /\ agg = Err(MissingState)

C3_OptionalityFidelity ==
    Emitted =>
        /\ \A m \in OptionalMethods :
              LET field == DescriptorFn(tokens.val.entity_fn, m)
                  expected == to_case_Snake(tokens.val.entity_fn.stype) \o "_" \o m
              IN  /\ IsSome(field) <=> InHasMethod(m)
                  /\ IsSome(field) => Unwrap(field) = expected
                  /\ Cardinality(Generated(expected)) = IF InHasMethod(m) THEN 1 ELSE 0
        /\ Len(tokens.val.pg_externs) = 1 + Cardinality(PresentOptional)

\* C3 witness: an output was emitted for a specification with `combine` and without `finalize`
C3_Witness ==
    /\ Emitted
    /\ InHasMethod("combine")
    /\ ~InHasMethod("finalize")
    /\ IsSome(tokens.val.entity_fn.combinefunc)
    /\ IsNone(tokens.val.entity_fn.finalfunc)
    /\ Len(tokens.val.pg_externs) = 2

\* C4: a HYPOTHETICAL constant that is not a literal boolean never compiles,
\* and it is reported with the HYPOTHETICAL error (InvalidConstantType)
\* whenever every earlier step of PgAggregate::new completes; a literal
\* boolean becomes the `hypothetical` field of the aggregate and of the
\* descriptor; without the constant the field is false.
C4_Hypothetical ==
    /\ (Constructed /\ InHasConst("HYPOTHETICAL") /\ InConst("HYPOTHETICAL").k # "LitBool") =>
          /\ agg.kind # "Ok"
          /\ tokens.kind = "NotRun"
          /\ PassesBeforeHypothetical => agg = Err(InvalidHypothetical)
    /\ (Constructed /\ agg.kind = "Ok") =>
          agg.val.hypothetical =
              (InHasConst("HYPOTHETICAL") /\ InConst("HYPOTHETICAL") = ELitBool("true"))
    /\ Emitted =>
          tokens.val.entity_fn.hypothetical =
              (InHasConst("HYPOTHETICAL") /\ InConst("HYPOTHETICAL") = ELitBool("true"))

\* C4 witness: a specification that also has `combine` was rejected for its
\* HYPOTHETICAL = "true" (a string literal)
C4_Witness ==
    /\ Constructed
    /\ InHasConst("HYPOTHETICAL")
    /\ InConst("HYPOTHETICAL") = ELitStr("true")
    /\ InHasMethod("combine")
    /\ agg = Err(InvalidHypothetical)

\* the target type of the specification with one PgVarlena level removed
TargetOf ==
    IF input.self_ty.id = "PgVarlena" THEN input.self_ty.args[1] ELSE input.self_ty

\* the generated wrapper of method m
WrapperOf(m) ==
    tokens.val.pg_externs[
        CHOOSE i \in DOMAIN tokens.val.pg_externs :
            tokens.val.pg_externs[i].name = to_case_Snake(TargetOf.id) \o "_" \o m]

\* the types of a wrapper's signature: its parameters' and its return type
SignatureTypes(f) == {f.params[i].ty : i \in DOMAIN f.params} \cup {f.ret}

\* C5: a specification without a NAME constant, or with a NAME that is not a
\* string literal, is rejected by PgAggregate::new with an error, and nothing
\* is emitted.
C5_NameRequired ==
    (Constructed /\ (~InHasConst("NAME") \/ InConst("NAME").k # "LitStr")) =>
        /\ agg.kind = "Err"
        /\ tokens.kind = "NotRun"

\* C6: a string-valued optional constant (INITIAL_CONDITION, SORT_OPERATOR,
\* MOVING_INITIAL_CONDITION) given a literal that is not a string makes
\* PgAggregate::new fail; the specification never compiles with the constant
\* treated as absent.
C6_WrongLiteralKindRejected ==
    \A name \in {"INITIAL_CONDITION", "SORT_OPERATOR", "MOVING_INITIAL_CONDITION"} :
        (Constructed /\ InHasConst(name) /\ InConst(name).k \in {"LitInt", "LitBool"}) =>
            agg.kind = "Err"

\* C7: a specification that passes every check before the `state` wrapper and
\* whose Args resolve to more arguments than the pool has names fails with a
\* returned error (UnsupportedArgCount), not with a truncated wrapper and not
\* with any other abort.
C7_TooManyArgsIsAnError ==
    (Constructed /\ PassesBeforeState /\ InHasMethod("state")
        /\ ArgCount > Len(ARG_NAMES)) =>
        agg.kind = "Err"

\* C8: when the State associated type is PgVarlena, every emitted wrapper whose
\* signature mentions the state (state, combine, finalize, serial, deserial)
\* takes the state as PgVarlena<target> and never as the bare target type, and
\* the descriptor's state type name is the target's name.
C8_EncodingPropagation ==
    (Emitted /\ InHasType("State") /\ InType("State").k = "Path"
        /\ InType("State").id = "PgVarlena") =>
        /\ \A m \in {"state", "combine", "finalize", "serial", "deserial"} :
              InHasMethod(m) =>
                  /\ WrapperOf(m).params[1].ty = TPgVarlena(TargetOf)
                  /\ TargetOf \notin SignatureTypes(WrapperOf(m))
        /\ tokens.val.entity_fn.stype = TargetOf.id

\* C9: when the target type is PgVarlena<T>, the target identity is T (one
\* level unwrapped) and the state wrapper takes and returns the state as
\* PgVarlena<T>, also without a State associated type.
C9_WrappedTarget ==
    (Emitted /\ input.self_ty.id = "PgVarlena") =>
        /\ tokens.val.entity_fn.stype = input.self_ty.args[1].id
        /\ WrapperOf("state").params[1].ty = TPgVarlena(input.self_ty.args[1])
        /\ WrapperOf("state").ret = TPgVarlena(input.self_ty.args[1])

\* C10: for an Args tuple of N <= 32 elements the emitted state wrapper has,
\* after its state parameter, exactly N parameters named arg_one, arg_two, ..
\* in pool order, the i-th typed with the i-th declared tuple element, and its
\* body passes the same N names in the same order to the state operation.
C10_ArgumentFidelity ==
    (Emitted /\ InType("Args").k = "Tuple" /\ ArgCount <= 32) =>
        LET f == WrapperOf("state")
            elems == InType("Args").args
        IN  /\ Len(f.params) = 1 + ArgCount
            /\ f.params[1].name = "this"
            /\ \A i \in 1..ArgCount :
                  /\ f.params[i + 1].name = ARG_NAMES[i]
                  /\ f.params[i + 1].ty = elems[i]
                  /\ f.body.args[i + 1] = ARG_NAMES[i]
            /\ Len(f.body.args) = 1 + ArgCount
            /\ f.body.args[1] = "this"
            /\ f.body.callee = "state"
            /\ IsNone(f.body.packed)
            /\ <<ARG_NAMES[1], ARG_NAMES[2], ARG_NAMES[3]>>
                  = <<"arg_one", "arg_two", "arg_three">>

\* C10 witness: the state wrapper of Args = (i32, f64) was emitted with
\* (this, arg_one: i32, arg_two: f64)
C10_Witness ==
    /\ Emitted
    /\ InType("Args") = TTuple(<<TPath("i32"), TPath("f64")>>)
    /\ WrapperOf("state").params
          = <<Param("this", TPath("MySum")), Param("arg_one", TPath("i32")),
              Param("arg_two", TPath("f64"))>>
    /\ WrapperOf("state").body.args = <<"this", "arg_one", "arg_two">>

\* the snake-cased short name of the target type, written out
ExpectedSnake ==
    CASE TargetOf.id = "MySum" -> "my_sum"
      [] TargetOf.id = "IntegerAvgState" -> "integer_avg_state"

\* the methods the author wrote, in the order PgAggregate::new visits them
PresentMethods == SelectSeq(MethodNames, LAMBDA m : InHasMethod(m))

\* C11: in every emitted output the generated functions are named, in order,
\* snake_case(target short name) + "_" + suffix for exactly the methods the
\* author wrote, and the descriptor records these very names for the state
\* function and for each optional method that is present.
C11_Naming ==
    Emitted =>
        /\ [i \in DOMAIN tokens.val.pg_externs |-> tokens.val.pg_externs[i].name]
              = [i \in DOMAIN PresentMethods |-> ExpectedSnake \o "_" \o PresentMethods[i]]
        /\ tokens.val.entity_fn.sfunc = ExpectedSnake \o "_state"
        /\ \A m \in PresentOptional :
              DescriptorFn(tokens.val.entity_fn, m) = Some(ExpectedSnake \o "_" \o m)

\* C11 witness: IntegerAvgState with `moving_state_inverse` was emitted with the
\* functions integer_avg_state_state and integer_avg_state_moving_state_inverse
C11_Witness ==
    /\ Emitted
    /\ input.self_ty = TPath("IntegerAvgState")
    /\ InHasMethod("moving_state_inverse")
    /\ tokens.val.pg_externs[1].name = "integer_avg_state_state"
    /\ tokens.val.pg_externs[2].name = "integer_avg_state_moving_state_inverse"
    /\ tokens.val.entity_fn.minvfunc = Some("integer_avg_state_moving_state_inverse")

\* C12: the body of every emitted wrapper calls the operation of its own
\* component on the target: the wrapper of method m calls m, for each of the
\* eight methods that the author wrote.
C12_Delegation ==
    Emitted =>
        \A i \in DOMAIN PresentMethods :
            /\ WrapperOf(PresentMethods[i]).body.callee = PresentMethods[i]
            /\ WrapperOf(PresentMethods[i]).body.on = TargetOf

\* the resolved argument types of the declared Args, the variadic wrapper kept
DeclaredArgs == Elems(InType("Args"))

\* C13: the emitted wrappers of state, moving_state and moving_state_inverse
\* have one leading (moving-)state parameter followed by one parameter per
\* resolved argument, named arg_one, arg_two, .. and typed with that argument;
\* none has a parameter of the unflattened type <T as Aggregate>::Args.
C13_ParameterShape ==
    Emitted =>
        \A m \in {"state", "moving_state", "moving_state_inverse"} :
            InHasMethod(m) =>
                LET f == WrapperOf(m)
                IN  /\ Len(f.params) = 1 + ArgCount
                    /\ f.params[1].name = (IF m = "state" THEN "this" ELSE "mstate")
                    /\ \A i \in 1..ArgCount :
                          f.params[i + 1] = Param(ARG_NAMES[i], DeclaredArgs[i])
                    /\ \A i \in DOMAIN f.params :
                          f.params[i].ty # TQSelf(TargetOf, "Args")

\* C14: the emitted wrappers of the other components have fixed shapes: combine
\* two state parameters, finalize one, serial one and a Vec<u8> result,
\* deserial exactly the byte sequence and the allocation handle, and
\* moving_finalize one moving-state parameter.
C14_FixedShapes ==
    Emitted =>
        /\ InHasMethod("combine") =>
              [i \in 1..Len(WrapperOf("combine").params) |->
                  WrapperOf("combine").params[i].name] = <<"this", "v">>
        /\ InHasMethod("finalize") =>
              [i \in 1..Len(WrapperOf("finalize").params) |->
                  WrapperOf("finalize").params[i].name] = <<"this">>
        /\ InHasMethod("serial") =>
              /\ [i \in 1..Len(WrapperOf("serial").params) |->
                     WrapperOf("serial").params[i].name] = <<"this">>
              /\ WrapperOf("serial").ret = TVecU8
        /\ InHasMethod("deserial") =>
              /\ Len(WrapperOf("deserial").params) = 2
              /\ WrapperOf("deserial").params[1].ty = TVecU8
              /\ WrapperOf("deserial").params[2].ty.id = "PgBox"
        /\ InHasMethod("moving_finalize") =>
              /\ [i \in 1..Len(WrapperOf("moving_finalize").params) |->
                     WrapperOf("moving_finalize").params[i].name] = <<"mstate">>
              /\ WrapperOf("moving_finalize").params[1].ty = TQSelf(TargetOf, "MovingState")

InvalidTraitTarget == "#[pg_aggregate] only works with the Aggregate trait."

\* C15: a specification that names a trait whose last path segment is not
\* Aggregate never compiles and nothing is emitted for it; the error is the
\* trait error (InvalidTraitTarget) whenever the target type, which is looked
\* at first, resolves.  A specification that names Aggregate, under any path
\* prefix, never gets the trait error.
C15_InvalidTraitTarget ==
    /\ (Constructed /\ ~TraitAccepted) =>
          /\ agg.kind = "Err"
          /\ tokens.kind = "NotRun"
          /\ TargetResolves => agg = Err(InvalidTraitTarget)
    /\ (Constructed /\ TraitAccepted) => agg # Err(InvalidTraitTarget)

\* C15 witness: `impl fmt::Display for MySum` with a `combine` method was
\* rejected with the trait error
C15_Witness ==
    /\ Constructed
    /\ input.trait_ = Some(<<"fmt", "Display">>)
    /\ InHasMethod("combine")
    /\ agg = Err(InvalidTraitTarget)

\* the HYPOTHETICAL constant is present and is not a literal boolean
BadHypothetical == InHasConst("HYPOTHETICAL") /\ InConst("HYPOTHETICAL").k # "LitBool"

\* one of the failure kinds of PgAggregate::new: wrong trait, missing Args,
\* missing state, bad HYPOTHETICAL, bad target path
FailsValidation ==
    \/ ~TraitAccepted
    \/ ~InHasType("Args")
    \/ ~InHasMethod("state")
    \/ BadHypothetical
    \/ ~TargetResolves

\* C16: output is all or nothing.  When PgAggregate::new does not return Ok,
\* to_tokens never runs and nothing is emitted, and each of the failure kinds
\* (wrong trait, missing Args, missing state, bad HYPOTHETICAL, bad target
\* path) ends this way; whatever to_tokens emits is the augmented impl block,
\* every generated function (one per method the author wrote) and the one
\* descriptor together, and an expansion that emits nothing leaves no partial
\* output behind.
C16_AllOrNothing ==
    /\ (Constructed /\ agg.kind # "Ok") => (tokens = NotRun /\ pc # "emitted")
    /\ (Constructed /\ FailsValidation) => agg.kind # "Ok"
    /\ tokens.kind # "Ok" => tokens.val = <<>>
    /\ tokens.kind = "Ok" =>
          /\ agg.kind = "Ok"
          /\ DOMAIN tokens.val = {"impl_item", "pg_externs", "entity_fn"}
          /\ "sfunc" \in DOMAIN tokens.val.entity_fn
          /\ tokens.val.impl_item = agg.val.item_impl
          /\ tokens.val.pg_externs = agg.val.pg_externs
          /\ Len(tokens.val.pg_externs) = Len(PresentMethods)
          /\ tokens.val.entity_fn.sfunc = tokens.val.pg_externs[1].name

\* C16 witness: a specification with `combine` and `finalize` was emitted as
\* the augmented impl block, three functions and the descriptor
C16_Witness ==
    /\ Emitted
    /\ InHasMethod("combine")
    /\ InHasMethod("finalize")
    /\ Len(tokens.val.pg_externs) = 3
    /\ Len(tokens.val.impl_item.items) > Len(input.items)
    /\ tokens.val.entity_fn.combinefunc = Some("my_sum_combine")

TargetTypeOf(item_impl) ==
    IF item_impl.self_ty.id = "PgVarlena" THEN item_impl.self_ty.args[1]
    ELSE item_impl.self_ty

\* the names of the functions an expansion emitted: the wrappers and the
\* function that returns the descriptor
EmittedNames(t) ==
    IF t.kind = "Ok"
    THEN {t.val.pg_externs[i].name : i \in DOMAIN t.val.pg_externs}
         \cup {t.val.entity_fn.fn_name}
    ELSE {}

\* C18: two expansions of one build whose target types differ emit disjoint
\* sets of function names.
C18_NoNameCollisions ==
    \A i \in DOMAIN done :
        (Emitted /\ done[i].tokens.kind = "Ok"
            /\ TargetTypeOf(done[i].input) # TargetTypeOf(input)) =>
            EmittedNames(done[i].tokens) \cap EmittedNames(tokens) = {}

\* the items of kind `kind` named `name` in the augmented impl block
AugmentedItems(kind, name) ==
    {i \in DOMAIN agg.val.item_impl.items :
        /\ agg.val.item_impl.items[i].kind = kind
        /\ agg.val.item_impl.items[i].ident = name}

\* the message of an UnsupportedOperation failure that names component m
UnsupportedOperation(m) == "Call to " \o m \o " on an aggregate which does not support it."

\* C19: in every successfully constructed aggregate the augmented impl block
\* holds, for each optional method the author did not write, exactly one
\* method of that name, and its body fails with the UnsupportedOperation
\* message that names that same method; the methods the author wrote are left
\* as written.
C19_Stubs ==
    (Constructed /\ agg.kind = "Ok") =>
        \A m \in OptionalMethods :
            /\ Cardinality(AugmentedItems("Method", m)) = 1
            /\ LET stub == agg.val.item_impl.items[
                               CHOOSE i \in AugmentedItems("Method", m) : TRUE]
               IN  IF InHasMethod(m) THEN stub.body = "user"
                   ELSE stub.body = UnsupportedOperation(m)

\* C20: in every successfully constructed aggregate each of MovingState,
\* OrderBy and Finalize that the author did not declare is added to the impl
\* block once as the unit type, and a declared one is left alone; the
\* descriptor's mstype and order_by are set exactly when the author declared
\* MovingState and OrderBy, and then hold the declared type.
C20_OptionalTypes ==
    /\ (Constructed /\ agg.kind = "Ok") =>
          \A t \in {"MovingState", "OrderBy", "Finalize"} :
              /\ Cardinality(AugmentedItems("Type", t)) = 1
              /\ agg.val.item_impl.items[CHOOSE i \in AugmentedItems("Type", t) : TRUE].ty
                    = (IF InHasType(t) THEN InType(t) ELSE TUnit)
    /\ Emitted =>
          /\ tokens.val.entity_fn.mstype
                = (IF InHasType("MovingState") THEN Some(InType("MovingState")) ELSE None)
          /\ IsSome(tokens.val.entity_fn.order_by) <=> InHasType("OrderBy")
          /\ InHasType("OrderBy") =>
                /\ Unwrap(tokens.val.entity_fn.order_by).original = InType("OrderBy")
                /\ Unwrap(tokens.val.entity_fn.order_by).found = Elems(InType("OrderBy"))

\* C20 witness: a specification that declares MovingState = i64 and no OrderBy
\* was emitted with mstype set, order_by unset and `type OrderBy = ()` added
C20_Witness ==
    /\ Emitted
    /\ InHasType("MovingState")
    /\ ~InHasType("OrderBy")
    /\ tokens.val.entity_fn.mstype = Some(TPath("i64"))
    /\ tokens.val.entity_fn.order_by = None
    /\ \E i \in DOMAIN tokens.val.impl_item.items :
          tokens.val.impl_item.items[i] = ImplType("OrderBy", TUnit)

\* C21 (Scenario A): the specification with NAME = "my_sum", Args = i32, a
\* `state` method and nothing else is emitted with exactly one generated
\* function, my_sum_state(this: MySum, arg_one: i32) -> MySum, which passes
\* (this, arg_one) to the state operation, and with a descriptor whose
\* combinefunc and finalfunc are unset and whose hypothetical is false.
C21_ScenarioA ==
    /\ (Constructed /\ input = InputOf(BaseSlots)) => agg.kind = "Ok"
    /\ (pc = "emitted" /\ input = InputOf(BaseSlots)) =>
          /\ tokens.kind = "Ok"
          /\ Len(tokens.val.pg_externs) = 1
          /\ tokens.val.pg_externs[1].name = "my_sum_state"
          /\ tokens.val.pg_externs[1].params
                = <<Param("this", TPath("MySum")), Param("arg_one", TPath("i32"))>>
          /\ tokens.val.pg_externs[1].ret = TPath("MySum")
          /\ tokens.val.pg_externs[1].body
                = Call("path", TPath("MySum"), "state", <<"this", "arg_one">>, None)
          /\ tokens.val.entity_fn.name = "my_sum"
          /\ tokens.val.entity_fn.sfunc = "my_sum_state"
          /\ tokens.val.entity_fn.combinefunc = None
          /\ tokens.val.entity_fn.finalfunc = None
          /\ tokens.val.entity_fn.hypothetical = FALSE

\* C21 witness: the Scenario A specification was emitted with its one function
C21_Witness ==
    /\ Emitted
    /\ input = InputOf(BaseSlots)
    /\ input.self_ty = TPath("MySum")
    /\ InConst("NAME") = ELitStr("my_sum")
    /\ InType("Args") = TPath("i32")
    /\ PresentMethods = <<"state">>
    /\ tokens.val.pg_externs[1].name = "my_sum_state"

\* the messages of the errors of get_target_path and get_target_ident: the
\* kind MalformedTypePath of the error taxonomy
MalformedTypePath ==
    {"#[pg_aggregate] only works with types.",
     "#[pg_aggregate] only works with types whose path have a final segment.",
     "#[pg_aggregate] only works with PgVarlena declarations if they have a type contained.",
     "#[pg_aggregate] only works with PgVarlena declarations if they have a type path contained."}

\* C22: a target that is not a type path, or a PgVarlena target without a
\* generic argument or whose first generic argument is not a type path, makes
\* PgAggregate::new fail with one of the target-path errors and nothing is
\* emitted; every other target never gets a target-path error, and when the
\* aggregate is constructed its target is the path itself or, for PgVarlena,
\* the path of the first generic argument.
C22_MalformedTypePath ==
    /\ (Constructed /\ ~TargetResolves) =>
          /\ agg.kind = "Err"
          /\ agg.err \in MalformedTypePath
          /\ tokens.kind = "NotRun"
    /\ (Constructed /\ TargetResolves) =>
          /\ ~(agg.kind = "Err" /\ agg.err \in MalformedTypePath)
          /\ agg.kind = "Ok" =>
                /\ agg.val.pg_externs[1].body.on = TargetOf
                /\ agg.val.fn_state = ExpectedSnake \o "_state"
    /\ Emitted => tokens.val.entity_fn.stype = TargetOf.id

\* C22 witness: `impl Aggregate for PgVarlena<(i32,)>` with a `combine` method
\* was rejected for the type inside PgVarlena not being a path
C22_Witness ==
    /\ Constructed
    /\ input.self_ty = TGeneric(<<>>, "PgVarlena", <<TTuple(<<TPath("i32")>>)>>)
    /\ InHasMethod("combine")
    /\ agg = Err("#[pg_aggregate] only works with PgVarlena declarations if they have a type path contained.")

\* the items PgAggregate::new appended to the author's impl block
AppendedItems ==
    SubSeq(agg.val.item_impl.items, Len(input.items) + 1, Len(agg.val.item_impl.items))

\* the optional associated types that get a unit default
DefaultedTypes == {"MovingState", "OrderBy", "Finalize"}

\* C23: the impl block of a successfully constructed aggregate is the author's
\* items, unchanged and in order, followed by appended items only; each
\* appended item is the unit default of an absent MovingState, OrderBy or
\* Finalize or the stub of an absent optional method, and there is exactly one
\* appended item for each of those absent components and none besides.
C23_AugmentationFrame ==
    (Constructed /\ agg.kind = "Ok") =>
        /\ SubSeq(agg.val.item_impl.items, 1, Len(input.items)) = input.items
        /\ \A i \in DOMAIN AppendedItems :
              \/ /\ AppendedItems[i].kind = "Type"
                 /\ AppendedItems[i].ident \in DefaultedTypes
                 /\ ~InHasType(AppendedItems[i].ident)
                 /\ AppendedItems[i].ty = TUnit
              \/ /\ AppendedItems[i].kind = "Method"
                 /\ AppendedItems[i].ident \in OptionalMethods
                 /\ ~InHasMethod(AppendedItems[i].ident)
        /\ Len(AppendedItems)
              = Cardinality({t \in DefaultedTypes : ~InHasType(t)})
                + Cardinality({m \in OptionalMethods : ~InHasMethod(m)})
        /\ \A i, j \in DOMAIN AppendedItems :
              AppendedItems[i].ident = AppendedItems[j].ident => i = j

\* the first defect of the specification in the order target type, trait,
\* OrderBy, Args, state, HYPOTHETICAL
FirstDefect ==
    IF ~TargetResolves THEN "target"
    ELSE IF ~TraitAccepted THEN "trait"
    ELSE IF ~OrderByAccepted THEN "order_by"
    ELSE IF ~ArgsAccepted THEN "args"
    ELSE IF ~InHasMethod("state") THEN "state"
    ELSE IF BadHypothetical THEN "hypothetical"
    ELSE "none"

\* the defect that the result of PgAggregate::new reports
ReportedDefect ==
    IF agg.kind # "Err" THEN "none"
    ELSE IF agg.err \in MalformedTypePath THEN "target"
    ELSE IF agg.err = InvalidTraitTarget THEN "trait"
    ELSE IF agg.err = "cannot resolve the type of an ordering argument" THEN "order_by"
    ELSE IF agg.err \in {MissingArgs, "cannot resolve the type of an argument",
                         "only the last argument may be variadic"} THEN "args"
    ELSE IF agg.err = MissingState THEN "state"
    ELSE IF agg.err = InvalidHypothetical THEN "hypothetical"
    ELSE "other"

OriginalSet(i) == Unwrap(bindings_rs[VersionList[i]])

\* C25: when build_common_set has returned, `common` is exactly the set of the
\* items that every version's bindings hold (their intersection), every
\* version set is its original contents without the common items, so it is
\* disjoint from `common` and together with `common` gives back the original
\* set; these are the sets that are written to common.rs and pgNN_specific.rs.
C25_CommonSetPartition ==
    (main_pc \in {"built", "written"}) =>
        /\ Len(versions) = Len(VersionList)
        /\ common = {k \in UNION {OriginalSet(i) : i \in DOMAIN VersionList} :
                        \A i \in DOMAIN VersionList : k \in OriginalSet(i)}
        /\ \A i \in DOMAIN versions :
              /\ versions[i] = OriginalSet(i) \ common
              /\ versions[i] \cap common = {}
              /\ versions[i] \cup common = OriginalSet(i)
        /\ main_pc = "written" =>
              written = Some([common_rs |-> common, specific_rs |-> versions])

\* C25 witness: build_common_set returned one common item and left a
\* version-specific item in pg12 only
C25_Witness ==
    /\ main_pc = "built"
    /\ common = {ItemPool[1]}
    /\ versions = <<{}, {}, {ItemPool[2]}>>
    /\ OriginalSet(3) = {ItemPool[1], ItemPool[2]}

\* C26: at most one version is inside the critical section of build_shim, and
\* it is the holder of shim_mutex; a version that builds or has built its shim
\* has written its bindings before; bindings_diff::main (generate_common_rs)
\* runs only after all three versions have written their bindings and built
\* their shims.
C26_BuildConcurrency ==
    /\ \A v, w \in PgVersions :
          (worker[v] = "in_shim" /\ worker[w] = "in_shim") => v = w
    /\ \A v \in PgVersions : worker[v] = "in_shim" <=> shim_mutex.holder = v
    /\ \A v \in PgVersions :
          (worker[v] \in {"in_shim", "done"} /\ main_pc # "done") => IsSome(bindings_rs[v])
    /\ main_pc \in {"read", "built", "written", "done"} =>
          /\ \A v \in PgVersions : worker[v] = "done"
          /\ shim_mutex.holder = 0
    /\ main_pc \in {"read", "built", "written"} =>
          \A v \in PgVersions : IsSome(bindings_rs[v])

\* C26 witness: the three versions are under way at once: pg10 builds its shim,
\* pg11 has its bindings and waits for the mutex, pg12 still generates bindings
C26_Witness ==
    /\ worker[10] = "in_shim"
    /\ worker[11] = "bindgen_done"
    /\ worker[12] = "start"
    /\ shim_mutex.holder = 10
    /\ main_pc = "par_iter"

=============================================================================
